---- MODULE Spec2Model ----
\* A model of rl_utils.utils.rewards.reward_function.RewardFunction: one
\* RewardFunction instance, its reward units and the operations a caller or a
\* unit can run on it.  Distances and radii are in tenths (3 stands for 0.3),
\* rewards in tenths as well (-50 stands for -5).
\*
\* Four specifications share the module:
\*   Spec           construction, evaluation, goal radius and episode reset;
\*   SpecStep       one constructed instance, its shared scratch state and
\*                  its info mapping, with the arguments of every call kept;
\*   SpecCollector  one AggregateCollectorUnit of
\*                  observation_units/aggregate_collector_unit.py;
\*   SpecRace       the same unit with get_observations run statement by
\*                  statement while update runs on another thread.
EXTENDS Integers, Sequences, FiniteSets, TLC

\* ---------------------------------------------------------------- bounds
MaxUnits == 2       \* entries of a unit specification
MaxLen == 2         \* elements of a laser array
MaxCount == 1       \* cap on a unit's per-episode counter
MaxPublish == 1     \* cap on unit evaluations between two per-step resets

\* range readings: zero, below, at and above the safe distance
Dists == {0, 2, 3, 4}
SafeDists == {3}
\* step context: distance_to_goal
GoalDists == {2}

\* REWARD_CONSTANTS.MIN_GOAL_RADIUS (rewards/constants.py)
MIN_GOAL_RADIUS == 1

\* goal radii offered to the constructor, the setter and reset(): below, at
\* and above the minimum
GoalRadii == {MIN_GOAL_RADIUS - 1, MIN_GOAL_RADIUS, MIN_GOAL_RADIUS + 1}

\* ---------------------------------------------------------------- values
\* Python values held by the shared scratch state.
NoneV == [none |-> TRUE]
Num(n) == [num |-> n]
Bool(b) == [bool |-> b]

IsNum(v) == "num" \in DOMAIN v
IsBool(v) == "bool" \in DOMAIN v

\* bool(v) of a scratch-state value: None, 0 and False are falsy.
Truthy(v) == v # NoneV /\ v # Num(0) /\ v # Bool(FALSE)

\* the number a value compares as (True is 1.0, False is 0.0)
NumOf(v) == IF IsNum(v) THEN v.num ELSE IF v = Bool(TRUE) THEN 10 ELSE 0

\* An optional numpy array argument: absent (None) or a sequence of readings.
ArrNone == [given |-> FALSE, data |-> <<>>]
Arr(s) == [given |-> TRUE, data |-> s]
SeqsUpTo(S, n) == UNION {[1..k -> S] : k \in 0..n}
Lasers == {ArrNone} \cup {Arr(s) : s \in SeqsUpTo(Dists, MaxLen)}
\* point clouds, by the distance of each point: absent, empty, one point
Clouds == {ArrNone, Arr(<<>>), Arr(<<2>>)}

ArrKind(a) ==
    IF ~a.given THEN "none"
    ELSE IF Len(a.data) = 0 THEN "empty"
    ELSE IF Len(a.data) = 1 THEN "one" ELSE "many"

RECURSIVE SeqMin(_)
SeqMin(s) ==
    IF Len(s) = 1 THEN s[1]
    ELSE LET m == SeqMin(Tail(s)) IN IF s[1] <= m THEN s[1] ELSE m

\* dict.update: the entries of d are written over those of m
DictUpdate(m, d) ==
    [k \in DOMAIN m \cup DOMAIN d |-> IF k \in DOMAIN d THEN d[k] ELSE m[k]]

EmptyDict == <<>>

NoExc == "none"

\* ---------------------------------------------------------------- state
VARIABLES
    status,                 \* "none": not constructed, "failed": __init__ raised, "ok": instance exists
    rew_fnc_dict,           \* _rew_fnc_dict: the unit specification, in order
    reward_units,           \* _reward_units
    unit_state,             \* per-episode counter of each reward unit
    safe_dist,              \* _safe_dist
    goal_radius,            \* _goal_radius
    internal_state_info,    \* _internal_state_info
    curr_reward,            \* _curr_reward
    info,                   \* _info
    invoked,                \* units evaluated since the last per-step reset, in order
    last,                   \* the last operation: what was called and how it ended
    received,               \* the arguments each evaluated unit was called with, as invoked
    call,                   \* SpecStep: the arguments and the result of the last call
    retained,               \* SpecStep: a reference to an info mapping a caller kept
    laser_observations,     \* SpecCollector: _laser_observations
    semantic_observations,  \* SpecCollector: _semantic_observations
    obs_dict,               \* SpecCollector: the obs_dict handed to get_observations
    seen,                   \* SpecCollector: the last collector operation
    thread,                 \* SpecRace: where the get_observations call in progress stands
    pending                 \* SpecRace: per laser observation, the stored value not yet written out

reward_vars == <<status, rew_fnc_dict, reward_units, unit_state, safe_dist, goal_radius,
                 internal_state_info, curr_reward, info, invoked, last, received>>
step_vars == <<call, retained>>
race_vars == <<thread, pending>>
collector_vars == <<laser_observations, semantic_observations, obs_dict, seen, race_vars>>

vars == <<reward_vars, step_vars, collector_vars>>

NoLast ==
    [op |-> "none", exc |-> NoExc, noInput |-> FALSE, dirty |-> FALSE,
     bad |-> FALSE, arg |-> 0, log |-> <<>>]

\* no call kept yet
NoCall == [op |-> "none"]

\* a caller's reference to an info mapping: held says whether one was taken,
\* current whether it is the object bound to _info now, shows what reading
\* through it gives
NoRetained == [held |-> FALSE, current |-> FALSE, shows |-> EmptyDict]

\* no get_observations call in progress
Idle == [pc |-> "idle"]

\* no call in progress and no stored value waiting
NoRace ==
    /\ thread = Idle
    /\ pending = <<>>

\* no collector unit in this specification
NoCollector ==
    /\ laser_observations = <<>>
    /\ semantic_observations = <<>>
    /\ obs_dict = <<>>
    /\ seen = [op |-> "none"]
    /\ NoRace

Init ==
    /\ status = "none"
    /\ rew_fnc_dict = <<>>
    /\ reward_units = <<>>
    /\ unit_state = <<>>
    /\ safe_dist = 0
    /\ goal_radius = 0
    /\ internal_state_info = EmptyDict
    /\ curr_reward = 0
    /\ info = EmptyDict
    /\ invoked = <<>>
    /\ last = NoLast
    /\ received = <<>>
    /\ call = NoCall
    /\ retained = NoRetained
    /\ NoCollector

\* ---------------------------------------------------------------- reward units
\* Unit identifiers a specification may name; the last one is not registered.
UnitIds == {"goal_distance", "safe_distance", "unknown_unit"}
Registered == {"goal_distance", "safe_distance"}

\* One entry of the unit specification: identifier and parameters.  valid
\* says whether the unit's constructor accepts the parameters.
Entries == [id : UnitIds, valid : BOOLEAN]

DistinctIds(s) == \A i, j \in 1..Len(s) : i # j => s[i].id # s[j].id
Specs == {s \in SeqsUpTo(Entries, MaxUnits) : DistinctIds(s)}

\* RewardUnitFactory.instantiate(unit_name): the constructor, or unknown unit
instantiate(unit_name) ==
    IF unit_name \in Registered
    THEN [exc |-> NoExc, ctor |-> unit_name]
    ELSE [exc |-> "UnknownUnit", ctor |-> unit_name]

\* the capability flag of the example units: safe_distance runs on a breach,
\* goal_distance does not
OnSafeDistViolation(id) == id = "safe_distance"

\* RewardUnit.__init__(reward_function, **kwargs): parameters checked eagerly
UnitInit(ctor, entry) ==
    [exc |-> IF entry.valid THEN NoExc ELSE "ConfigError",
     unit |-> [id |-> ctor, on_safe_dist_violation |-> OnSafeDistViolation(ctor)]]

HasBadEntry(spec) ==
    \E i \in 1..Len(spec) : spec[i].id \notin Registered \/ ~spec[i].valid

\* the list comprehension of _setup_reward_function, entry by entry: the
\* first entry that raises ends it; units holds what was built until then
RECURSIVE BuildUnits(_, _)
BuildUnits(spec, acc) ==
    IF spec = <<>> THEN [exc |-> NoExc, units |-> acc]
    ELSE LET f == instantiate(Head(spec).id) IN
         IF f.exc # NoExc THEN [exc |-> f.exc, units |-> acc]
         ELSE LET u == UnitInit(f.ctor, Head(spec)) IN
              IF u.exc # NoExc THEN [exc |-> u.exc, units |-> acc]
              ELSE BuildUnits(Tail(spec), Append(acc, u.unit))

\* a setup that leaves out the entries that raise
RECURSIVE BuildUnitsSkipping(_, _)
BuildUnitsSkipping(spec, acc) ==
    IF spec = <<>> THEN [exc |-> NoExc, units |-> acc]
    ELSE LET f == instantiate(Head(spec).id)
             u == UnitInit(f.ctor, Head(spec))
         IN  IF f.exc # NoExc \/ u.exc # NoExc
             THEN BuildUnitsSkipping(Tail(spec), acc)
             ELSE BuildUnitsSkipping(Tail(spec), Append(acc, u.unit))

_setup_skipping_bad_entries(spec) == BuildUnitsSkipping(spec, <<>>)

\* a setup that builds the units in reverse order
_setup_reversed(spec) ==
    LET r == BuildUnits(spec, <<>>) IN
    [exc |-> r.exc, units |-> [i \in 1..Len(r.units) |-> r.units[Len(r.units) + 1 - i]]]

_setup_reward_function(spec) == BuildUnits(spec, <<>>)

\* load_rew_fnc(rew_func_name): the parsed specification
load_rew_fnc(spec) == spec

\* RewardFunction.__init__: the fields of the new instance, or the exception
\* that leaves the caller without one (_reward_units is then never assigned)
__init__(spec, goal_radius_arg, safe_dist_arg) ==
    LET d == load_rew_fnc(spec)
        r == _setup_reward_function(d)
    IN  [exc |-> r.exc,
         _safe_dist |-> safe_dist_arg,
         _goal_radius |-> goal_radius_arg,
         _internal_state_info |-> EmptyDict,
         _curr_reward |-> 0,
         _info |-> EmptyDict,
         _rew_fnc_dict |-> d,
         _reward_units |-> r.units]

Construct ==
    /\ status # "ok"
    /\ \E spec \in Specs, g \in GoalRadii, sd \in SafeDists :
         LET o == __init__(spec, g, sd) IN
         /\ last' = [NoLast EXCEPT !.op = "__init__", !.exc = o.exc,
                                   !.bad = HasBadEntry(spec), !.arg = g,
                                   !.log = IF o.exc # NoExc
                                           THEN [i \in 1..Len(o._reward_units) |-> i]
                                           ELSE <<>>]
         /\ IF o.exc # NoExc
            THEN /\ status' = "failed"
                 /\ UNCHANGED <<rew_fnc_dict, reward_units, unit_state, safe_dist,
                                goal_radius, internal_state_info, curr_reward, info>>
            ELSE /\ status' = "ok"
                 /\ rew_fnc_dict' = o._rew_fnc_dict
                 /\ reward_units' = o._reward_units
                 /\ unit_state' = [i \in 1..Len(o._reward_units) |-> 0]
                 /\ safe_dist' = o._safe_dist
                 /\ goal_radius' = o._goal_radius
                 /\ internal_state_info' = o._internal_state_info
                 /\ curr_reward' = o._curr_reward
                 /\ info' = o._info
         /\ UNCHANGED <<invoked, received, step_vars, collector_vars>>

\* ---------------------------------------------------------------- step state
\* The part of the instance the step operations read and write, threaded
\* through them; exc is the exception in flight, if any.
\* info_rebound says whether _info was bound to a new dictionary on the way.
Self ==
    [curr_reward |-> curr_reward, info |-> info, isi |-> internal_state_info,
     unit_state |-> unit_state, invoked |-> invoked, received |-> received,
     info_rebound |-> FALSE, exc |-> NoExc]

Raise(rf, e) == [rf EXCEPT !.exc = e]

add_reward(rf, value) == [rf EXCEPT !.curr_reward = @ + value]

add_info(rf, d) == [rf EXCEPT !.info = DictUpdate(@, d)]

add_internal_state_info(rf, key, value) ==
    [rf EXCEPT !.isi = DictUpdate(@, [k \in {key} |-> value])]

\* self._internal_state_info[key] raises KeyError for an absent key; a falsy
\* value (None, 0, False) yields the default
get_internal_state_info(rf, key, default) ==
    IF key \notin DOMAIN rf.isi THEN [exc |-> "KeyError", val |-> default]
    ELSE IF Truthy(rf.isi[key]) THEN [exc |-> NoExc, val |-> rf.isi[key]]
    ELSE [exc |-> NoExc, val |-> default]

\* a reset that empties the dictionary
reset_internal_state_info_removing(rf) == [rf EXCEPT !.isi = EmptyDict]

reset_internal_state_info(rf) ==
    [rf EXCEPT !.isi = [k \in DOMAIN @ |-> NoneV]]

\* a per-step reset that forgets the info dictionary
_reset_keeping_info(rf) ==
    reset_internal_state_info(
        [rf EXCEPT !.curr_reward = 0, !.invoked = <<>>, !.received = <<>>])

\* a per-step reset that clears the info dictionary in place
_reset_clearing_in_place(rf) ==
    reset_internal_state_info(
        [rf EXCEPT !.curr_reward = 0, !.info = EmptyDict,
                   !.invoked = <<>>, !.received = <<>>])

\* the per-step reset; it also starts a new record of evaluated units
_reset(rf) ==
    reset_internal_state_info(
        [rf EXCEPT !.curr_reward = 0, !.info = EmptyDict, !.info_rebound = TRUE,
                   !.invoked = <<>>, !.received = <<>>])

\* bool(a) of an optional numpy array.  An empty array is False on a numpy
\* that only warns and an error on one that rejects it (strict); an array of
\* one element has the truth of that element; a longer one raises.
ArrayTruth(a, strict) ==
    IF ~a.given THEN [exc |-> NoExc, val |-> FALSE]
    ELSE IF Len(a.data) = 0
         THEN IF strict THEN [exc |-> "ValueError:truth_value", val |-> FALSE]
              ELSE [exc |-> NoExc, val |-> FALSE]
    ELSE IF Len(a.data) = 1 THEN [exc |-> NoExc, val |-> a.data[1] # 0]
    ELSE [exc |-> "ValueError:truth_value", val |-> FALSE]

\* laser_scan.min()
ArrayMin(a) ==
    IF ~a.given THEN [exc |-> "AttributeError:min", val |-> 0]
    ELSE IF Len(a.data) = 0 THEN [exc |-> "ValueError:zero_size", val |-> 0]
    ELSE [exc |-> NoExc, val |-> SeqMin(a.data)]

\* min_distance_from_pointcloud(point_cloud) of rewards/utils.py
min_distance_from_pointcloud(a) ==
    IF ~a.given THEN [exc |-> "TypeError:point_cloud", val |-> 0]
    ELSE IF Len(a.data) = 0 THEN [exc |-> "ValueError:zero_size", val |-> 0]
    ELSE [exc |-> NoExc, val |-> SeqMin(a.data)]

\* set_min_dist_laser without the check for missing inputs
set_min_dist_laser_unchecked(rf, laser_scan, point_cloud, from_aggregate_obs, strict) ==
    LET m == IF ~from_aggregate_obs THEN ArrayMin(laser_scan)
             ELSE min_distance_from_pointcloud(point_cloud)
    IN  IF m.exc # NoExc THEN Raise(rf, m.exc)
        ELSE add_internal_state_info(rf, "min_dist_laser", Num(m.val))

set_min_dist_laser(rf, laser_scan, point_cloud, from_aggregate_obs, strict) ==
    LET t1 == ArrayTruth(laser_scan, strict)
        t2 == ArrayTruth(point_cloud, strict)
    IN  IF t1.exc # NoExc THEN Raise(rf, t1.exc)
        ELSE IF ~t1.val /\ t2.exc # NoExc THEN Raise(rf, t2.exc)
        ELSE IF ~t1.val /\ ~t2.val THEN Raise(rf, "ValueError:missing_input")
        ELSE LET m == IF ~from_aggregate_obs THEN ArrayMin(laser_scan)
                      ELSE min_distance_from_pointcloud(point_cloud)
             IN  IF m.exc # NoExc THEN Raise(rf, m.exc)
                 ELSE add_internal_state_info(rf, "min_dist_laser", Num(m.val))

\* None <= float raises TypeError
set_safe_dist_breached(rf) ==
    LET g == get_internal_state_info(rf, "min_dist_laser", NoneV) IN
    IF g.exc # NoExc THEN Raise(rf, g.exc)
    ELSE IF g.val = NoneV THEN Raise(rf, "TypeError:NoneType_compare")
    ELSE add_internal_state_info(rf, "safe_dist_breached",
                                 Bool(NumOf(g.val) <= safe_dist))

update_internal_state_info(rf, laser_scan, point_cloud, from_aggregate_obs, strict) ==
    LET s1 == set_min_dist_laser(rf, laser_scan, point_cloud, from_aggregate_obs, strict)
    IN  IF s1.exc # NoExc THEN s1 ELSE set_safe_dist_breached(s1)

\* The safe_dist_breached property returns self._safe_dist_breached, an
\* attribute that no statement of the class assigns: reading it raises.
safe_dist_breached(rf) ==
    [exc |-> "AttributeError:_safe_dist_breached", val |-> FALSE]

\* ---------------------------------------------------------------- unit contracts
\* the example units: goal_distance adds weight * distance_to_goal,
\* safe_distance adds its penalty when the breach flag is published true
GoalDistanceWeight == -1
SafeDistancePenalty == -50

UnitInfo(id) == [k \in {"last_unit", id} |-> IF k = id THEN "published" ELSE id]

\* reward_unit(laser_scan=laser_scan, **kwargs)
UnitEval(rf, i, laser_scan, kw) ==
    LET u == reward_units[i]
        started == [rf EXCEPT !.invoked = Append(@, i),
                              !.received = Append(@, [laser_scan |-> laser_scan,
                                                      kwargs |-> kw])]
        counted == [started EXCEPT !.unit_state[i] = @ + 1]
    IN  IF u.id = "goal_distance"
        THEN add_info(add_reward(counted, GoalDistanceWeight * kw), UnitInfo(u.id))
        ELSE LET g == get_internal_state_info(rf, "safe_dist_breached", NoneV) IN
             IF g.exc # NoExc THEN Raise(started, g.exc)
             ELSE IF Truthy(g.val)
                  THEN add_info(add_reward(counted, SafeDistancePenalty), UnitInfo(u.id))
                  ELSE add_info(counted, UnitInfo(u.id))

\* reward_unit.reset(): the per-episode counter is zeroed
UnitReset(st, i) == [st EXCEPT ![i] = 0]

\* ---------------------------------------------------------------- evaluation
\* a required parameter the call does not bind
Unbound == [unbound |-> TRUE]

RECURSIVE EvalUnits(_, _, _, _)
EvalUnits(rf, i, laser_scan, kw) ==
    IF i > Len(reward_units) THEN rf
    ELSE LET b == safe_dist_breached(rf) IN
         IF b.exc # NoExc THEN Raise(rf, b.exc)
         ELSE IF b.val /\ ~reward_units[i].on_safe_dist_violation
              THEN EvalUnits(rf, i + 1, laser_scan, kw)
              ELSE LET r == UnitEval(rf, i, laser_scan, kw) IN
                   IF r.exc # NoExc THEN r ELSE EvalUnits(r, i + 1, laser_scan, kw)

calculate_reward(rf, laser_scan, kw) ==
    IF laser_scan = Unbound THEN Raise(rf, "TypeError:missing_argument")
    ELSE EvalUnits(rf, 1, laser_scan, kw)

\* get_reward: _reset, update_internal_state_info, then
\* self.calculate_reward(**kwargs), a call that passes no laser_scan
get_reward(rf, laser_scan, point_cloud, from_aggregate_obs, kw, strict) ==
    LET s0 == _reset(rf)
        s1 == update_internal_state_info(s0, laser_scan, point_cloud,
                                         from_aggregate_obs, strict)
    IN  IF s1.exc # NoExc THEN s1 ELSE calculate_reward(s1, Unbound, kw)

\* The numpy builds that differ on this call: only the truth value of an
\* empty array depends on the build.
NumpyBuilds(laser, pc) ==
    IF ArrKind(laser) = "empty" \/ ArrKind(pc) = "empty" THEN BOOLEAN ELSE {FALSE}

Dirty == curr_reward # 0 \/ info # EmptyDict

\* What a kept reference gives after the operation: the object it names is
\* written through _info for as long as _info is bound to it, and is left as
\* it was once _info is bound to a new dictionary.
Aliased(ref, rf) ==
    IF ~ref.held \/ ~ref.current THEN ref
    ELSE IF rf.info_rebound THEN [ref EXCEPT !.current = FALSE]
    ELSE [ref EXCEPT !.shows = rf.info]

Commit(rf) ==
    /\ curr_reward' = rf.curr_reward
    /\ info' = rf.info
    /\ internal_state_info' = rf.isi
    /\ unit_state' = rf.unit_state
    /\ invoked' = rf.invoked
    /\ received' = rf.received
    /\ retained' = Aliased(retained, rf)

GetReward ==
    /\ status = "ok"
    /\ \E laser \in Lasers, pc \in Clouds, agg \in BOOLEAN, kw \in GoalDists :
       \E strict \in NumpyBuilds(laser, pc) :
         LET r == get_reward(Self, laser, pc, agg, kw, strict) IN
         /\ Commit(r)
         /\ last' = [NoLast EXCEPT !.op = "get_reward", !.exc = r.exc,
                                   !.noInput = (~laser.given /\ ~pc.given),
                                   !.dirty = Dirty]
    /\ UNCHANGED <<status, rew_fnc_dict, reward_units, safe_dist, goal_radius,
                   call, collector_vars>>

CalculateReward ==
    /\ status = "ok"
    /\ \E laser \in Lasers, kw \in GoalDists :
         LET r == calculate_reward(Self, laser, kw) IN
         /\ Commit(r)
         /\ last' = [NoLast EXCEPT !.op = "calculate_reward", !.exc = r.exc]
    /\ UNCHANGED <<status, rew_fnc_dict, reward_units, safe_dist, goal_radius,
                   call, collector_vars>>

\* a reward unit called on its own, outside calculate_reward
UnitCall ==
    /\ status = "ok"
    /\ Len(invoked) < MaxPublish
    /\ \E i \in 1..Len(reward_units), kw \in GoalDists :
         /\ unit_state[i] < MaxCount
         /\ LET r == UnitEval(Self, i, Arr(<<>>), kw) IN
            /\ Commit(r)
            /\ last' = [NoLast EXCEPT !.op = "unit", !.exc = r.exc, !.arg = i]
    /\ UNCHANGED <<status, rew_fnc_dict, reward_units, safe_dist, goal_radius,
                   call, collector_vars>>

\* ---------------------------------------------------------------- goal radius, episode reset
\* a setter that assigns before it validates
goal_radius_setter_assigning_first(stored, value) ==
    [exc |-> IF value < MIN_GOAL_RADIUS THEN "ValueError:goal_radius" ELSE NoExc,
     val |-> value]

\* the goal_radius setter: the stored value after the assignment, or the error
goal_radius_setter(stored, value) ==
    IF value < MIN_GOAL_RADIUS
    THEN [exc |-> "ValueError:goal_radius", val |-> stored]
    ELSE [exc |-> NoExc, val |-> value]

SetGoalRadius ==
    /\ status = "ok"
    /\ \E value \in GoalRadii :
         LET r == goal_radius_setter(goal_radius, value) IN
         /\ goal_radius' = r.val
         /\ last' = [NoLast EXCEPT !.op = "goal_radius", !.exc = r.exc,
                                   !.arg = value]
    /\ UNCHANGED <<status, rew_fnc_dict, reward_units, unit_state, safe_dist,
                   internal_state_info, curr_reward, info, invoked, received,
                   step_vars, collector_vars>>

\* for reward_unit in self._reward_units: reward_unit.reset()
RECURSIVE ResetUnits(_, _)
ResetUnits(r, i) ==
    IF i > Len(reward_units) THEN r
    ELSE ResetUnits([st |-> UnitReset(r.st, i), log |-> Append(r.log, i)], i + 1)

\* a reset() that leaves out the first unit
reset_from_second_unit(param) ==
    LET g == goal_radius_setter(goal_radius, param) IN
    IF g.exc # NoExc
    THEN [exc |-> g.exc, goal |-> g.val, st |-> unit_state, log |-> <<>>]
    ELSE LET u == ResetUnits([st |-> unit_state, log |-> <<>>], 2) IN
         [exc |-> NoExc, goal |-> g.val, st |-> u.st, log |-> u.log]

\* a reset() that resets the units before it validates the goal radius
reset_units_before_validating(param) ==
    LET u == ResetUnits([st |-> unit_state, log |-> <<>>], 1)
        g == goal_radius_setter(goal_radius, param)
    IN  [exc |-> g.exc, goal |-> g.val, st |-> u.st, log |-> u.log]

\* reset(): the setter is given the configured goal radius, then the units
\* are reset
reset(param) ==
    LET g == goal_radius_setter(goal_radius, param) IN
    IF g.exc # NoExc
    THEN [exc |-> g.exc, goal |-> g.val, st |-> unit_state, log |-> <<>>]
    ELSE LET u == ResetUnits([st |-> unit_state, log |-> <<>>], 1) IN
         [exc |-> NoExc, goal |-> g.val, st |-> u.st, log |-> u.log]

Reset ==
    /\ status = "ok"
    /\ \E param \in GoalRadii :
         LET r == reset(param) IN
         /\ goal_radius' = r.goal
         /\ unit_state' = r.st
         /\ last' = [NoLast EXCEPT !.op = "reset", !.exc = r.exc, !.arg = param,
                                   !.log = r.log,
                                   !.dirty = \E i \in 1..Len(unit_state) : unit_state[i] > 0]
    /\ UNCHANGED <<status, rew_fnc_dict, reward_units, safe_dist,
                   internal_state_info, curr_reward, info, invoked, received,
                   step_vars, collector_vars>>

Next ==
    \/ Construct
    \/ GetReward
    \/ CalculateReward
    \/ UnitCall
    \/ SetGoalRadius
    \/ Reset

Spec == Init /\ [][Next]_vars

\* ---------------------------------------------------------------- the step specification
\* One constructed instance with the units of the example, and the calls a
\* caller and the units make on it during steps.  Every call is kept in call.

\* the specification of the example: goal_distance, then safe_distance
StepSpecs ==
    {<<[id |-> "goal_distance", valid |-> TRUE], [id |-> "safe_distance", valid |-> TRUE]>>}

\* the laser arrays of a step: absent, empty, one reading (zero, below, at and
\* above the safe distance) and several readings
StepLasers ==
    {ArrNone, Arr(<<>>), Arr(<<0>>), Arr(<<2>>), Arr(<<3>>), Arr(<<4>>),
     Arr(<<4, 2>>), Arr(<<0, 4>>)}

\* a key a unit publishes on its own, and the values it publishes under it
UnitKeys == {"custom"}
UnitValues == {Num(4), Bool(FALSE)}
\* the keys a unit reads
ReadKeys == {"min_dist_laser", "safe_dist_breached"} \cup UnitKeys
\* the default a reader passes: the parameter's default None, or a value
Defaults == {NoneV, Bool(TRUE)}
\* the entries a unit publishes into the info
InfoEntries == {[k \in {"is_done"} |-> "published"]}

InitStep ==
    \E spec \in StepSpecs, sd \in SafeDists :
      LET o == __init__(spec, MIN_GOAL_RADIUS + 1, sd) IN
      /\ o.exc = NoExc
      /\ status = "ok"
      /\ rew_fnc_dict = o._rew_fnc_dict
      /\ reward_units = o._reward_units
      /\ unit_state = [i \in 1..Len(o._reward_units) |-> 0]
      /\ safe_dist = o._safe_dist
      /\ goal_radius = o._goal_radius
      /\ internal_state_info = o._internal_state_info
      /\ curr_reward = o._curr_reward
      /\ info = o._info
      /\ invoked = <<>>
      /\ received = <<>>
      /\ last = [NoLast EXCEPT !.op = "__init__", !.arg = MIN_GOAL_RADIUS + 1]
      /\ call = NoCall
      /\ retained = NoRetained
      /\ NoCollector

StepFrame ==
    UNCHANGED <<status, rew_fnc_dict, reward_units, safe_dist, goal_radius,
                collector_vars>>

\* some scratch-state entry holds a value
ScratchDirty == \E k \in DOMAIN internal_state_info : internal_state_info[k] # NoneV

\* get_reward, with its arguments kept
Step ==
    /\ status = "ok"
    /\ \E laser \in StepLasers, pc \in Clouds, agg \in BOOLEAN, kw \in GoalDists :
       \E strict \in NumpyBuilds(laser, pc) :
         LET r == get_reward(Self, laser, pc, agg, kw, strict) IN
         /\ Commit(r)
         /\ last' = [NoLast EXCEPT !.op = "get_reward", !.exc = r.exc,
                                   !.noInput = (~laser.given /\ ~pc.given),
                                   !.dirty = Dirty]
         /\ call' = [op |-> "get_reward", laser_scan |-> laser, point_cloud |-> pc,
                     from_aggregate_obs |-> agg, kwargs |-> kw,
                     scratch_dirty |-> ScratchDirty]
    /\ StepFrame

\* a unit publishes a key of its own
AddInternalStateInfo ==
    /\ status = "ok"
    /\ \E key \in UnitKeys, value \in UnitValues :
         /\ Commit(add_internal_state_info(Self, key, value))
         /\ last' = [NoLast EXCEPT !.op = "add_internal_state_info"]
         /\ call' = [op |-> "add_internal_state_info", key |-> key, value |-> value]
    /\ StepFrame

\* a unit reads a key
GetInternalStateInfo ==
    /\ status = "ok"
    /\ \E key \in ReadKeys, default \in Defaults :
         LET g == get_internal_state_info(Self, key, default) IN
         /\ last' = [NoLast EXCEPT !.op = "get_internal_state_info", !.exc = g.exc]
         /\ call' = [op |-> "get_internal_state_info", key |-> key,
                     default |-> default, ret |-> g.val]
    /\ UNCHANGED <<internal_state_info, curr_reward, info, unit_state, invoked,
                   received, retained>>
    /\ StepFrame

ResetInternalStateInfo ==
    /\ status = "ok"
    /\ Commit(reset_internal_state_info(Self))
    /\ last' = [NoLast EXCEPT !.op = "reset_internal_state_info"]
    /\ call' = [op |-> "reset_internal_state_info", scratch_dirty |-> ScratchDirty]
    /\ StepFrame

\* a unit publishes into the info
AddInfo ==
    /\ status = "ok"
    /\ \E d \in InfoEntries :
         /\ Commit(add_info(Self, d))
         /\ last' = [NoLast EXCEPT !.op = "add_info"]
         /\ call' = [op |-> "add_info", info |-> d]
    /\ StepFrame

\* a caller keeps a reference to the dictionary bound to _info
RetainInfo ==
    /\ status = "ok"
    /\ retained # [held |-> TRUE, current |-> TRUE, shows |-> info]
    /\ retained' = [held |-> TRUE, current |-> TRUE, shows |-> info]
    /\ last' = [NoLast EXCEPT !.op = "retain"]
    /\ call' = [op |-> "retain"]
    /\ UNCHANGED <<internal_state_info, curr_reward, info, unit_state, invoked,
                   received>>
    /\ StepFrame

NextStep ==
    \/ Step
    \/ AddInternalStateInfo
    \/ GetInternalStateInfo
    \/ ResetInternalStateInfo
    \/ AddInfo
    \/ RetainInfo

SpecStep == InitStep /\ [][NextStep]_vars

\* ---------------------------------------------------------------- the collector specification
\* One AggregateCollectorUnit: its laser and semantic observation containers,
\* the operations on a container, and get_observations on a dictionary the
\* caller hands in.
MaxSensors == 2     \* LaserScan sources of the local costmap configuration

\* no reward function in this specification
NoRewardFunction ==
    /\ status = "none"
    /\ rew_fnc_dict = <<>>
    /\ reward_units = <<>>
    /\ unit_state = <<>>
    /\ safe_dist = 0
    /\ goal_radius = 0
    /\ internal_state_info = EmptyDict
    /\ curr_reward = 0
    /\ info = EmptyDict
    /\ invoked = <<>>
    /\ last = NoLast
    /\ received = <<>>
    /\ call = NoCall
    /\ retained = NoRetained

\* Constants.OBS_DICT_KEYS: the laser key, the semantic types, and a key that
\* another collector unit writes
LASER == "laser_scan"
SEMANTIC == {"pedestrian_type", "pedestrian_vel"}
OtherKeys == {"goal_in_robot_frame"}

\* sensor_msgs.LaserScan(): ranges is the empty list; a received message
\* holds its ranges as a tuple
DefaultScan == [kind |-> "list", ranges |-> <<>>]
ReceivedScan(r) == [kind |-> "tuple", ranges |-> r]
Scans == {ReceivedScan(<<4>>), ReceivedScan(<<2>>), ReceivedScan(<<3, 4>>)}

\* pedsim_msgs.SemanticData() and a received message
DefaultSemantic == [semantic |-> "default"]
SemanticMsgs == {[semantic |-> "received"]}

\* Staleable.__init__ and Observation.__init__
Observation(initial_value) == [value |-> initial_value, stale |-> TRUE]

\* Observation.update
update(o, value) == [o EXCEPT !.value = value, !.stale = FALSE]

\* an invalidate without effect
invalidate_without_effect(o) == o

\* Staleable.invalidate
invalidate(o) == [o EXCEPT !.stale = TRUE]

\* the entries of a dictionary handed to get_observations
ArrayEntry(rows) == [array |-> rows]
PreviousLaser == ArrayEntry(<<<<9>>>>)
GoalEntry == [goal |-> "pose"]
ObsDicts ==
    {EmptyDict,
     [k \in OtherKeys |-> GoalEntry],
     [k \in OtherKeys \cup {LASER} |-> IF k = LASER THEN PreviousLaser ELSE GoalEntry]}

Min2(a, b) == IF a <= b THEN a ELSE b

\* the order of Python sequences: a <= b
RECURSIVE SeqLe(_, _)
SeqLe(a, b) ==
    IF a = <<>> THEN TRUE
    ELSE IF b = <<>> THEN FALSE
    ELSE IF Head(a) < Head(b) THEN TRUE
    ELSE IF Head(a) > Head(b) THEN FALSE
    ELSE SeqLe(Tail(a), Tail(b))

\* np.minimum.accumulate over rows of equal length: row j is the elementwise
\* minimum of the rows up to j
RECURSIVE RunningMin(_, _)
RunningMin(rows, acc) ==
    IF rows = <<>> THEN acc
    ELSE IF acc = <<>> THEN RunningMin(Tail(rows), <<Head(rows)>>)
    ELSE LET prev == acc[Len(acc)]
             row == [j \in 1..Len(prev) |-> Min2(prev[j], Head(rows)[j])]
         IN  RunningMin(Tail(rows), Append(acc, row))

\* np.minimum.accumulate over an object array: row j is the smaller, as a
\* Python sequence, of row j and the result so far
RECURSIVE RunningObjectMin(_, _)
RunningObjectMin(rows, acc) ==
    IF rows = <<>> THEN acc
    ELSE IF acc = <<>> THEN RunningObjectMin(Tail(rows), <<Head(rows)>>)
    ELSE LET prev == acc[Len(acc)]
             row == IF SeqLe(prev, Head(rows)) THEN prev ELSE Head(rows)
         IN  RunningObjectMin(Tail(rows), Append(acc, row))

Ragged(values) ==
    \E i, j \in 1..Len(values) : Len(values[i].ranges) # Len(values[j].ranges)

MixedKinds(values) ==
    \E i, j \in 1..Len(values) : values[i].kind # values[j].kind

\* np.minimum.accumulate([o.value.ranges for o in observations]).  Ranges of
\* unequal length make no array on a numpy that rejects ragged input
\* (strict); on one that builds an object array the rows are compared as
\* Python sequences, and a list does not compare with a tuple.
minimum_accumulate(values, strict) ==
    LET rows == [i \in 1..Len(values) |-> values[i].ranges] IN
    IF ~Ragged(values) THEN [exc |-> NoExc, val |-> ArrayEntry(RunningMin(rows, <<>>))]
    ELSE IF strict THEN [exc |-> "ValueError:inhomogeneous_shape", val |-> ArrayEntry(<<>>)]
    ELSE IF MixedKinds(values) THEN [exc |-> "TypeError:compare", val |-> ArrayEntry(<<>>)]
    ELSE [exc |-> NoExc, val |-> ArrayEntry(RunningObjectMin(rows, <<>>))]

\* the numpy builds that differ on these values
CollectorBuilds(obs) ==
    IF Ragged([i \in 1..Len(obs) |-> obs[i].value]) THEN BOOLEAN ELSE {FALSE}

AnyFresh(obs) == \E i \in 1..Len(obs) : ~obs[i].stale

\* get_observations(obs_dict): the dictionary and the laser observations it
\* leaves, or the exception that ends it before the first write
get_observations(d, strict) ==
    LET fresh == AnyFresh(laser_observations)
        acc == IF fresh
               THEN minimum_accumulate(
                        [i \in 1..Len(laser_observations) |-> laser_observations[i].value],
                        strict)
               ELSE [exc |-> NoExc, val |-> ArrayEntry(<<>>)]
    IN  IF acc.exc # NoExc
        THEN [exc |-> acc.exc, dict |-> d, laser |-> laser_observations]
        ELSE LET d1 == IF fresh THEN DictUpdate(d, [k \in {LASER} |-> acc.val]) ELSE d
                 obs1 == IF fresh
                         THEN [i \in 1..Len(laser_observations) |->
                                  invalidate(laser_observations[i])]
                         ELSE laser_observations
                 d2 == DictUpdate(d1, [k \in DOMAIN semantic_observations |->
                                          semantic_observations[k].value])
             IN  [exc |-> NoExc, dict |-> d2, laser |-> obs1]

Seen(op, exc, given) == [op |-> op, exc |-> exc, given |-> given]

\* an update: the container it was called on (of which kind, and which one)
\* and the value it was given
SeenUpdate(kind, target, value) ==
    [op |-> "update", exc |-> NoExc, given |-> EmptyDict,
     kind |-> kind, target |-> target, value |-> value]

\* AggregateCollectorUnit.__init__
InitCollector ==
    /\ NoRewardFunction
    /\ laser_observations = <<>>
    /\ semantic_observations = [t \in SEMANTIC |-> Observation(DefaultSemantic)]
    /\ obs_dict = EmptyDict
    /\ seen = Seen("__init__", NoExc, EmptyDict)
    /\ NoRace

CollectorFrame == UNCHANGED <<reward_vars, step_vars, race_vars>>

\* init_subs: one container for each LaserScan source of the obstacle layers
InitSubs ==
    /\ seen.op = "__init__"
    /\ \E n \in 0..MaxSensors :
         laser_observations' = [i \in 1..n |-> Observation(DefaultScan)]
    /\ seen' = Seen("init_subs", NoExc, EmptyDict)
    /\ UNCHANGED <<semantic_observations, obs_dict>>
    /\ CollectorFrame

\* update on a laser observation
LaserUpdate ==
    /\ \E i \in 1..Len(laser_observations), msg \in Scans :
         /\ laser_observations' = [laser_observations EXCEPT ![i] = update(@, msg)]
         /\ seen' = SeenUpdate("laser", i, msg)
    /\ UNCHANGED <<semantic_observations, obs_dict>>
    /\ CollectorFrame

\* update on a semantic observation
SemanticUpdate ==
    /\ seen.op # "__init__"
    /\ \E t \in SEMANTIC, msg \in SemanticMsgs :
         /\ semantic_observations' = [semantic_observations EXCEPT ![t] = update(@, msg)]
         /\ seen' = SeenUpdate("semantic", t, msg)
    /\ UNCHANGED <<laser_observations, obs_dict>>
    /\ CollectorFrame

GetObservations ==
    /\ seen.op # "__init__"
    /\ \E d \in ObsDicts \cup {obs_dict} :
       \E strict \in CollectorBuilds(laser_observations) :
         LET r == get_observations(d, strict) IN
         /\ obs_dict' = r.dict
         /\ laser_observations' = r.laser
         /\ seen' = Seen("get_observations", r.exc, d)
    /\ UNCHANGED semantic_observations
    /\ CollectorFrame

NextCollector ==
    \/ InitSubs
    \/ LaserUpdate
    \/ SemanticUpdate
    \/ GetObservations

SpecCollector == InitCollector /\ [][NextCollector]_vars

\* ---------------------------------------------------------------- the race specification
\* get_observations on the caller's thread, statement by statement, while
\* the subscribers' thread delivers messages and update is called on the
\* laser observations.  pending[i] follows the value that the last update
\* stored in laser observation i until a laser entry is computed from it:
\*   "during"  stored while a get_observations call was in progress,
\*   "before"  waiting for the next call to start,
\*   "due"     the call in progress is the last that may write it,
\*   "lost"    that call returned without a laser entry computed from it.
RaceDicts == {EmptyDict, [k \in {LASER} |-> PreviousLaser]}

\* the scans delivered while get_observations runs: one range each
RaceScans == {ReceivedScan(<<4>>), ReceivedScan(<<2>>)}

\* init_subs, with the record of stored values to follow
RaceInitSubs ==
    /\ seen.op = "__init__"
    /\ \E n \in 1..MaxSensors :
         /\ laser_observations' = [i \in 1..n |-> Observation(DefaultScan)]
         /\ pending' = [i \in 1..n |-> "none"]
    /\ seen' = Seen("init_subs", NoExc, EmptyDict)
    /\ UNCHANGED <<semantic_observations, obs_dict, thread>>
    /\ UNCHANGED <<reward_vars, step_vars>>

\* The callback that init_subs registers is a functools.partialmethod object,
\* which is not callable: a delivered message raises on the subscribers'
\* thread and reaches no container.
LaserCallback ==
    /\ Len(laser_observations) > 0
    /\ seen' = Seen("callback", "TypeError:not_callable", EmptyDict)
    /\ UNCHANGED <<laser_observations, semantic_observations, obs_dict, thread, pending>>
    /\ UNCHANGED <<reward_vars, step_vars>>

\* update on a laser observation, from another thread
RaceUpdate ==
    /\ \E i \in 1..Len(laser_observations), msg \in RaceScans :
         /\ laser_observations' = [laser_observations EXCEPT ![i] = update(@, msg)]
         /\ pending' = [pending EXCEPT ![i] = IF thread.pc = "idle" THEN "before"
                                              ELSE "during"]
         /\ seen' = SeenUpdate("laser", i, msg)
    /\ UNCHANGED <<semantic_observations, obs_dict, thread>>
    /\ UNCHANGED <<reward_vars, step_vars>>

\* get_observations is called: the any(...) test over the laser observations
Begin ==
    /\ thread.pc = "idle"
    /\ seen.op # "__init__"
    /\ \E d \in RaceDicts :
         thread' = [pc |-> IF AnyFresh(laser_observations) THEN "read" ELSE "semantic",
                    given |-> d, dict |-> d, next |-> 1]
    /\ pending' = [i \in DOMAIN pending |->
                      IF pending[i] = "before" THEN "due" ELSE pending[i]]
    /\ UNCHANGED <<laser_observations, semantic_observations, obs_dict, seen>>
    /\ UNCHANGED <<reward_vars, step_vars>>

\* the list of the observations' ranges is read and accumulated, and the
\* laser entry written; an exception ends the call
ReadValues ==
    /\ thread.pc = "read"
    /\ \E strict \in CollectorBuilds(laser_observations) :
         LET acc == minimum_accumulate(
                        [i \in 1..Len(laser_observations) |-> laser_observations[i].value],
                        strict)
         IN  IF acc.exc # NoExc
             THEN /\ thread' = Idle
                  /\ obs_dict' = thread.dict
                  /\ seen' = Seen("get_observations", acc.exc, thread.given)
                  /\ pending' = [i \in DOMAIN pending |->
                                    IF pending[i] \in {"during", "due"} THEN "before"
                                    ELSE pending[i]]
             ELSE /\ thread' = [thread EXCEPT
                                   !.pc = "invalidate",
                                   !.dict = DictUpdate(@, [k \in {LASER} |-> acc.val])]
                  /\ pending' = [i \in DOMAIN pending |->
                                    IF pending[i] = "lost" THEN "lost" ELSE "none"]
                  /\ UNCHANGED <<obs_dict, seen>>
    /\ UNCHANGED <<laser_observations, semantic_observations>>
    /\ UNCHANGED <<reward_vars, step_vars>>

\* for obs in self._laser_observations: obs.invalidate(), one at a time
InvalidateNext ==
    /\ thread.pc = "invalidate"
    /\ laser_observations' =
           [laser_observations EXCEPT ![thread.next] = invalidate(@)]
    /\ thread' = [thread EXCEPT
                     !.next = @ + 1,
                     !.pc = IF thread.next = Len(laser_observations)
                            THEN "semantic" ELSE "invalidate"]
    /\ UNCHANGED <<semantic_observations, obs_dict, seen, pending>>
    /\ UNCHANGED <<reward_vars, step_vars>>

\* the semantic entries are written and the dictionary returned
Return ==
    /\ thread.pc = "semantic"
    /\ obs_dict' = DictUpdate(thread.dict,
                              [k \in DOMAIN semantic_observations |->
                                  semantic_observations[k].value])
    /\ seen' = Seen("get_observations", NoExc, thread.given)
    /\ thread' = Idle
    /\ pending' = [i \in DOMAIN pending |->
                      IF pending[i] = "due" THEN "lost"
                      ELSE IF pending[i] = "during" THEN "before"
                      ELSE pending[i]]
    /\ UNCHANGED <<laser_observations, semantic_observations>>
    /\ UNCHANGED <<reward_vars, step_vars>>

NextRace ==
    \/ RaceInitSubs
    \/ LaserCallback
    \/ RaceUpdate
    \/ Begin
    \/ ReadValues
    \/ InvalidateNext
    \/ Return

SpecRace == InitCollector /\ [][NextRace]_vars

\* ---------------------------------------------------------------- claims
InvokedSet == {invoked[k] : k \in 1..Len(invoked)}

\* the minimum distance the last refresh published, when it published one
MinPublished ==
    /\ "min_dist_laser" \in DOMAIN internal_state_info
    /\ IsNum(internal_state_info["min_dist_laser"])

BreachPublished(b) ==
    /\ "safe_dist_breached" \in DOMAIN internal_state_info
    /\ internal_state_info["safe_dist_breached"] = Bool(b)

\* C1: after a get_reward whose minimum laser distance is at or below the
\* safe distance, no unit with on_safe_dist_violation false has been invoked
\* and every unit with on_safe_dist_violation true has been invoked.
C1_BreachRunsOnlyExemptUnits ==
    (/\ last.op = "get_reward"
     /\ MinPublished
     /\ internal_state_info["min_dist_laser"].num <= safe_dist)
    => \A i \in 1..Len(reward_units) :
         reward_units[i].on_safe_dist_violation <=> i \in InvokedSet

\* C2: what a get_reward call leaves as reward and info holds only what units
\* published during that call: every info key comes from a unit evaluated in
\* the call, and the reward is 0 when none was evaluated.
C2_NoLeakBetweenSteps ==
    last.op = "get_reward"
    => /\ DOMAIN info \subseteq UNION {DOMAIN UnitInfo(reward_units[i].id) : i \in InvokedSet}
       /\ (InvokedSet = {} => curr_reward = 0)

C2_Witness ==
    /\ last.op = "get_reward"
    /\ last.dirty
    /\ curr_reward = 0
    /\ info = EmptyDict

\* C3: get_reward with neither a laser array nor a point cloud raises the
\* missing-input error, invokes no unit and leaves the reward at 0.
C3_MissingInputRaises ==
    (last.op = "get_reward" /\ last.noInput)
    => /\ last.exc = "ValueError:missing_input"
       /\ invoked = <<>>
       /\ curr_reward = 0

C3_Witness ==
    /\ last.op = "get_reward"
    /\ last.noInput
    /\ last.dirty
    /\ last.exc = "ValueError:missing_input"
    /\ curr_reward = 0

\* C4: a goal radius below the minimum given to the setter raises the domain
\* error and leaves the stored value as it was; a value at or above the
\* minimum is stored as given.
C4_SetterValidates ==
    [][last'.op = "goal_radius"
       => IF last'.arg < MIN_GOAL_RADIUS
          THEN last'.exc = "ValueError:goal_radius" /\ goal_radius' = goal_radius
          ELSE last'.exc = NoExc /\ goal_radius' = last'.arg]_vars

C4_Witness ==
    /\ last.op = "goal_radius"
    /\ last.arg < MIN_GOAL_RADIUS
    /\ last.exc = "ValueError:goal_radius"
    /\ goal_radius > MIN_GOAL_RADIUS

\* C5: the stored goal radius of an instance is never below the minimum.
C5_GoalRadiusAtLeastMinimum ==
    status = "ok" => goal_radius >= MIN_GOAL_RADIUS

\* C6: an instance has one unit per specification entry, in specification
\* order, and no operation on the instance changes the unit list.
C6_OneUnitPerEntry ==
    /\ [](status = "ok"
          => /\ Len(reward_units) = Len(rew_fnc_dict)
             /\ \A i \in 1..Len(reward_units) : reward_units[i].id = rew_fnc_dict[i].id)
    /\ [][status = "ok" => reward_units' = reward_units]_vars

C6_Witness ==
    /\ status = "ok"
    /\ Len(reward_units) = 2
    /\ reward_units[1].id = "safe_distance"
    /\ reward_units[2].id = "goal_distance"
    /\ last.op = "get_reward"

\* C7: a construction whose specification has an unregistered identifier or
\* rejected parameters ends with the error and without an instance; every
\* instance has a unit for each entry of its specification.
C7_NoPartialUnitList ==
    /\ (last.op = "__init__" /\ last.bad)
       => /\ status = "failed"
          /\ last.exc \in {"UnknownUnit", "ConfigError"}
    /\ status = "ok"
       => /\ Len(reward_units) = Len(rew_fnc_dict)
          /\ ~HasBadEntry(rew_fnc_dict)
    /\ status # "ok" => (reward_units = <<>> /\ last.op \in {"none", "__init__"})

C7_Witness ==
    /\ status = "failed"
    /\ last.op = "__init__"
    /\ last.bad
    /\ last.log # <<>>
    /\ reward_units = <<>>

\* C8: a reset() that succeeds has called reset() on every unit once, in
\* unit-list order, and leaves every unit's per-episode counter at zero.
C8_ResetResetsEveryUnit ==
    (last.op = "reset" /\ last.exc = NoExc)
    => /\ last.log = [i \in 1..Len(reward_units) |-> i]
       /\ \A i \in 1..Len(reward_units) : unit_state[i] = 0

C8_Witness ==
    /\ last.op = "reset"
    /\ last.exc = NoExc
    /\ last.dirty
    /\ Len(reward_units) = 2
    /\ \A i \in 1..Len(reward_units) : unit_state[i] = 0

\* the configuration of the example: goal_distance, then safe_distance, safe
\* distance 0.3
ExampleConfig ==
    /\ status = "ok"
    /\ Len(reward_units) = 2
    /\ reward_units[1].id = "goal_distance"
    /\ reward_units[2].id = "safe_distance"
    /\ safe_dist = 3

\* C9: in the example (laser minimum 0.2, distance_to_goal 2.0) get_reward
\* returns, and the reward is the -5 of safe_distance alone.
C9_ExampleReward ==
    (/\ last.op = "get_reward"
     /\ ExampleConfig
     /\ MinPublished
     /\ internal_state_info["min_dist_laser"] = Num(2))
    => /\ last.exc = NoExc
       /\ curr_reward = SafeDistancePenalty

\* C10: after a get_reward step without a breach in which two units publish
\* the key "last_unit", the info maps it to the value of the later unit.
C10_LastWriteWins ==
    (/\ last.op = "get_reward"
     /\ Len(reward_units) = 2
     /\ BreachPublished(FALSE))
    => /\ last.exc = NoExc
       /\ "last_unit" \in DOMAIN info
       /\ info["last_unit"] = reward_units[2].id

\* ---------------------------------------------------------------- claims on the step specification
Unset(key) ==
    key \notin DOMAIN internal_state_info \/ internal_state_info[key] = NoneV

RefreshDone ==
    MinPublished /\ (BreachPublished(TRUE) \/ BreachPublished(FALSE))

\* C11: a read through get_internal_state_info of a key that holds no value
\* of the current step (never added, or set to None by the per-step reset)
\* ends with an error, not with a value or the default.
C11_UnpublishedReadRaises ==
    (last.op = "get_internal_state_info" /\ Unset(call.key))
    => last.exc # NoExc

\* C12: a get_reward call with a laser array has published min_dist_laser
\* and safe_dist_breached, has invoked the units in unit-list order and
\* returns to the caller.
C12_PhasesInOrder ==
    (last.op = "get_reward" /\ call.laser_scan.given)
    => /\ RefreshDone
       /\ \A a, b \in 1..Len(invoked) : a < b => invoked[a] < invoked[b]
       /\ last.exc = NoExc

\* a unit the breach rule does not skip
NotSkipped(i) ==
    ~(BreachPublished(TRUE) /\ ~reward_units[i].on_safe_dist_violation)

\* C13: after the refresh of a get_reward call, every unit that the breach
\* rule does not skip has been invoked with the laser array and the step
\* context of that call.
C13_UnitsReceiveStepArguments ==
    (last.op = "get_reward" /\ RefreshDone)
    => \A i \in 1..Len(reward_units) :
         NotSkipped(i)
         => \E k \in 1..Len(invoked) :
              /\ invoked[k] = i
              /\ received[k] = [laser_scan |-> call.laser_scan, kwargs |-> call.kwargs]

\* C14: once get_reward has published a minimum distance, safe_dist_breached
\* is published as (minimum <= safe distance), also for a minimum of 0 and
\* for a minimum equal to the safe distance; and a read of a key that holds
\* False returns False.
C14_BreachIsMinAtMostSafe ==
    /\ (last.op = "get_reward" /\ MinPublished)
       => BreachPublished(internal_state_info["min_dist_laser"].num <= safe_dist)
    /\ (/\ last.op = "get_internal_state_info"
        /\ ~Unset(call.key)
        /\ internal_state_info[call.key] = Bool(FALSE))
       => (last.exc = NoExc /\ call.ret = Bool(FALSE))

\* a supplied array with readings
HasReadings(a) == a.given /\ Len(a.data) > 0

\* C15: a get_reward call given a laser array or a point cloud with readings
\* publishes the minimum of a supplied input, and that of the source the
\* flag selects when that source is supplied.
C15_MinFromSelectedSource ==
    (/\ last.op = "get_reward"
     /\ HasReadings(call.laser_scan) \/ HasReadings(call.point_cloud)
     /\ ~(call.laser_scan.given /\ ~HasReadings(call.laser_scan))
     /\ ~(call.point_cloud.given /\ ~HasReadings(call.point_cloud)))
    => /\ MinPublished
       /\ \E a \in {call.laser_scan, call.point_cloud} :
            HasReadings(a) /\ internal_state_info["min_dist_laser"] = Num(SeqMin(a.data))
       /\ LET sel == IF call.from_aggregate_obs THEN call.point_cloud
                     ELSE call.laser_scan
          IN  HasReadings(sel)
              => internal_state_info["min_dist_laser"] = Num(SeqMin(sel.data))

\* C16: get_reward ends with the missing-input error exactly when neither
\* the laser array nor the point cloud is supplied.
C16_MissingInputExactlyWhenBothAbsent ==
    last.op = "get_reward"
    => (last.exc = "ValueError:missing_input"
        <=> (~call.laser_scan.given /\ ~call.point_cloud.given))

\* the keys the refresh of get_reward publishes
RefreshKeys == {"min_dist_laser", "safe_dist_breached"}

\* C17: no operation removes a key of the shared scratch state; after
\* reset_internal_state_info every key maps to None, and after get_reward
\* every key that its refresh did not publish maps to None.
C17_ResetKeepsKeys ==
    /\ [][DOMAIN internal_state_info \subseteq DOMAIN internal_state_info']_vars
    /\ [](last.op = "reset_internal_state_info"
          => \A k \in DOMAIN internal_state_info : internal_state_info[k] = NoneV)
    /\ [](last.op = "get_reward"
          => /\ \A k \in DOMAIN internal_state_info \ RefreshKeys :
                  internal_state_info[k] = NoneV
             /\ ~MinPublished
                => \A k \in DOMAIN internal_state_info : internal_state_info[k] = NoneV)

C17_Witness ==
    /\ last.op = "get_reward"
    /\ call.scratch_dirty
    /\ last.exc = "ValueError:missing_input"
    /\ DOMAIN internal_state_info = RefreshKeys \cup UnitKeys
    /\ \A k \in DOMAIN internal_state_info : internal_state_info[k] = NoneV

\* C18 as stated: a reference to the info mapping kept by a caller is, after
\* the next get_reward call, a reference to the mapping in use and shows
\* what that mapping holds.
C18_InfoClearedAndReused ==
    [][(last'.op = "get_reward" /\ retained.held /\ retained.current)
       => (retained'.current /\ retained'.shows = info')]_vars

\* C18, amended: get_reward binds _info to a new dictionary; a reference kept
\* from before the call names the old dictionary, which still shows what it
\* showed before the call.
C18_InfoReplacedNotReused ==
    [][(last'.op = "get_reward" /\ retained.held)
       => (~retained'.current /\ retained'.shows = retained.shows)]_vars

C18_Witness ==
    /\ last.op = "get_reward"
    /\ retained.held
    /\ ~retained.current
    /\ retained.shows # EmptyDict
    /\ info = EmptyDict

\* ---------------------------------------------------------------- claims on the episode reset
\* C19: a reset() that reads a goal radius below the minimum raises the
\* domain error, leaves the stored goal radius as it was and calls reset()
\* on no unit: every per-episode counter keeps its value.
C19_BadResetLeavesAllAsItWas ==
    [][(last'.op = "reset" /\ last'.arg < MIN_GOAL_RADIUS)
       => /\ last'.exc = "ValueError:goal_radius"
          /\ goal_radius' = goal_radius
          /\ last'.log = <<>>
          /\ unit_state' = unit_state]_vars

C19_Witness ==
    /\ last.op = "reset"
    /\ last.arg < MIN_GOAL_RADIUS
    /\ last.exc = "ValueError:goal_radius"
    /\ last.dirty
    /\ goal_radius >= MIN_GOAL_RADIUS
    /\ \E i \in 1..Len(unit_state) : unit_state[i] > 0

\* ---------------------------------------------------------------- claims on the collector specification
\* C20: get_observations writes the laser entry of the dictionary exactly
\* when some laser observation is not stale at entry and leaves it as it was
\* otherwise; it writes every semantic entry with the value of its
\* observation and leaves every other entry as it was.
C20_LaserWrittenIffFresh ==
    [][GetObservations
       => /\ seen'.exc = NoExc
          /\ IF AnyFresh(laser_observations)
             THEN /\ LASER \in DOMAIN obs_dict'
                  /\ obs_dict'[LASER] # PreviousLaser
             ELSE /\ LASER \in DOMAIN obs_dict' <=> LASER \in DOMAIN seen'.given
                  /\ LASER \in DOMAIN obs_dict' => obs_dict'[LASER] = seen'.given[LASER]
          /\ \A t \in SEMANTIC :
               /\ t \in DOMAIN obs_dict'
               /\ obs_dict'[t] = semantic_observations[t].value
          /\ \A k \in DOMAIN obs_dict' \ (SEMANTIC \cup {LASER}) :
               k \in DOMAIN seen'.given /\ obs_dict'[k] = seen'.given[k]
          /\ DOMAIN seen'.given \subseteq DOMAIN obs_dict']_vars

LaserIndices == 1..Len(laser_observations)

\* the laser entry of the dictionary is the one of the dictionary handed in
LaserEntryLeft ==
    /\ LASER \in DOMAIN obs_dict <=> LASER \in DOMAIN seen.given
    /\ LASER \in DOMAIN obs_dict => obs_dict[LASER] = seen.given[LASER]

\* C21: an observation that has had no update is stale; update(v) leaves
\* its container with the value v and not stale; a get_observations that
\* returns leaves every laser observation stale with the value it had; and a
\* get_observations that follows another with no update in between leaves
\* the laser entry as it was handed in.
C21_StaleUntilUpdated ==
    /\ [](/\ \A i \in LaserIndices :
               laser_observations[i].value = DefaultScan => laser_observations[i].stale
           /\ \A t \in DOMAIN semantic_observations :
               semantic_observations[t].value = DefaultSemantic
               => semantic_observations[t].stale)
    /\ [][seen'.op = "update"
          => IF seen'.kind = "semantic"
             THEN semantic_observations'[seen'.target] =
                      [value |-> seen'.value, stale |-> FALSE]
             ELSE /\ laser_observations'[seen'.target] =
                         [value |-> seen'.value, stale |-> FALSE]
                  /\ \A i \in LaserIndices \ {seen'.target} :
                         laser_observations'[i] = laser_observations[i]]_vars
    /\ [][(seen'.op = "get_observations" /\ seen'.exc = NoExc)
          => \A i \in LaserIndices :
               /\ laser_observations'[i].stale
               /\ laser_observations'[i].value = laser_observations[i].value]_vars
    /\ []((seen.op = "get_observations" /\ seen.exc = NoExc)
          => \A i \in LaserIndices : laser_observations[i].stale)
    /\ [][(/\ seen.op = "get_observations"
           /\ seen.exc = NoExc
           /\ seen'.op = "get_observations")
          => (seen'.exc = NoExc /\ LaserEntryLeft')]_vars

\* a second get_observations in a row, on observations that have had
\* updates, has left the previous laser entry of the dictionary handed in
C21_Witness ==
    /\ seen.op = "get_observations"
    /\ seen.exc = NoExc
    /\ Len(laser_observations) = MaxSensors
    /\ \A i \in LaserIndices :
         laser_observations[i].stale /\ laser_observations[i].value # DefaultScan
    /\ LASER \in DOMAIN seen.given
    /\ obs_dict[LASER] = PreviousLaser

\* ---------------------------------------------------------------- claims on the race specification
\* C22: under every interleaving of update with the statements of
\* get_observations, the value an update stored is written into the laser
\* entry by the call in progress or by the next call: no call returns with
\* a stored value that was due in it and that no laser entry was computed
\* from.
C22_NoUpdateLost ==
    \A i \in DOMAIN pending : pending[i] # "lost"

====
